---------------------------- MODULE Spec2Model ----------------------------
(***************************************************************************)
(* Model of luthier_functions.py (Luthier's Toolbox): the ruler rounding,  *)
(* the length parser, the unit report, the string spacing calculator and   *)
(* the compound-radius fretboard table.                                    *)
(*                                                                         *)
(* The functions are called by a client, one call at a time.  The only     *)
(* state that outlives a call is the precision of the ambient decimal      *)
(* context (getcontext().prec).  Floating point values are modelled as     *)
(* exact rationals [n, d]; Decimal values as [c, e] = c * 10^e under the   *)
(* precision of the context, rounded half-even as the decimal module does. *)
(***************************************************************************)
EXTENDS Integers, Naturals, Sequences, FiniteSets, TLC

VARIABLES pc, call, result, prec

vars == <<pc, call, result, prec>>

(***************************************************************************)
(* Bounds of the model                                                     *)
(***************************************************************************)
MaxMilli == 2100          \* decimal inputs are k/1000, 0 <= k <= MaxMilli
MaxRoundMilli == 1100     \* round_to_denominator inputs, |k| <= MaxRoundMilli
MaxLen == 5               \* length of the texts enumerated for the parser
MaxStrings == 5           \* length of the gauge sequences
MaxFrets == 23            \* num_frets <= MaxFrets

(***************************************************************************)
(* Integer helpers                                                         *)
(***************************************************************************)
Abs(x) == IF x < 0 THEN -x ELSE x

Min(a, b) == IF a <= b THEN a ELSE b

Sign(x) == IF x < 0 THEN -1 ELSE 1

RECURSIVE GCD(_, _)
GCD(a, b) == IF b = 0 THEN a ELSE GCD(b, a % b)

\* Python's round() on a non-negative quotient n/d: nearest, ties to even.
RoundHalfEven(n, d) ==
    LET q == n \div d
        r == n % d
    IN  IF 2 * r > d \/ (2 * r = d /\ q % 2 = 1) THEN q + 1 ELSE q

(***************************************************************************)
(* Rationals: the values of float and Fraction                             *)
(***************************************************************************)
Rat(n, d) ==
    LET g == GCD(Abs(n), Abs(d))
        s == Sign(d)
    IN  [n |-> s * (n \div g), d |-> s * (d \div g)]

RatInt(k) == [n |-> k, d |-> 1]

RatNeg(a) == [n |-> -a.n, d |-> a.d]

RatAbs(a) == [n |-> Abs(a.n), d |-> a.d]

RatAdd(a, b) == Rat(a.n * b.d + b.n * a.d, a.d * b.d)

RatSub(a, b) == RatAdd(a, RatNeg(b))

\* cross-cancels before multiplying, the value is that of a * b
RatMul(a, b) ==
    LET g1 == GCD(Abs(a.n), b.d)
        g2 == GCD(Abs(b.n), a.d)
    IN  IF a.n = 0 \/ b.n = 0 THEN RatInt(0)
        ELSE Rat((a.n \div g1) * (b.n \div g2), (a.d \div g2) * (b.d \div g1))

\* b # 0
RatDiv(a, b) == RatMul(a, Rat(b.d, b.n))

RatLt(a, b) == a.n * b.d < b.n * a.d

RatLe(a, b) == a.n * b.d <= b.n * a.d

\* int(): truncation toward zero
RatTrunc(a) == Sign(a.n) * (Abs(a.n) \div a.d)

\* Fraction % 1
RatMod1(a) == Rat(a.n % a.d, a.d)

(***************************************************************************)
(* round_to_denominator                                                    *)
(***************************************************************************)
standard_denominators(denominator) == {2, 4, 8, 16, 32, denominator}

\* The value returned, and whether it is the rounded fraction (line 56) or
\* the input handed back (line 59).
round_to_denominator(fraction_value, denominator) ==
    IF fraction_value.n = 0
    THEN [value |-> Rat(0, denominator), rounded |-> TRUE]
    ELSE LET sign == Sign(fraction_value.n)
             absval == RatAbs(fraction_value)
             numerator == RoundHalfEven(absval.n * denominator, absval.d)
             fraction == Rat(numerator, denominator)
         IN  IF fraction.d \in standard_denominators(denominator)
             THEN [value |-> Rat(sign * fraction.n, fraction.d), rounded |-> TRUE]
             ELSE [value |-> Rat(sign * absval.n, absval.d), rounded |-> FALSE]

(***************************************************************************)
(* Texts are sequences of one-character strings                            *)
(***************************************************************************)
Digits == {"0", "1", "2", "3", "4", "5", "6", "7", "8", "9"}

Letters ==
    { "a", "b", "c", "d", "e", "f", "g", "h", "i", "j", "k", "l", "m", "n", "o", "p", "q", "r", "s", "t", "u", "v", "w", "x", "y", "z" } \cup
    { "A", "B", "C", "D", "E", "F", "G", "H", "I", "J", "K", "L", "M", "N", "O", "P", "Q", "R", "S", "T", "U", "V", "W", "X", "Y", "Z" }

Whitespace == {" "}

DigitVal(ch) ==
    CASE ch = "0" -> 0 [] ch = "1" -> 1 [] ch = "2" -> 2 [] ch = "3" -> 3
      [] ch = "4" -> 4 [] ch = "5" -> 5 [] ch = "6" -> 6 [] ch = "7" -> 7
      [] ch = "8" -> 8 [] ch = "9" -> 9

DigitChar(k) ==
    CASE k = 0 -> "0" [] k = 1 -> "1" [] k = 2 -> "2" [] k = 3 -> "3"
      [] k = 4 -> "4" [] k = 5 -> "5" [] k = 6 -> "6" [] k = 7 -> "7"
      [] k = 8 -> "8" [] k = 9 -> "9"

\* str(int) for a natural number
RECURSIVE IntText(_)
IntText(k) == IF k < 10 THEN <<DigitChar(k)>>
              ELSE IntText(k \div 10) \o <<DigitChar(k % 10)>>

\* int(str) for a run of digits
RECURSIVE DigitsValue(_)
DigitsValue(t) ==
    IF t = <<>> THEN 0
    ELSE 10 * DigitsValue(SubSeq(t, 1, Len(t) - 1)) + DigitVal(t[Len(t)])

\* length of the run of characters of class cls that starts at index i
RECURSIVE Run(_, _, _)
Run(t, i, cls) ==
    IF i <= Len(t) /\ t[i] \in cls THEN 1 + Run(t, i + 1, cls) ELSE 0

CharAt(t, i) == IF i >= 1 /\ i <= Len(t) THEN t[i] ELSE "<end>"

\* input_value.replace("'", "ft").replace(",", ".")
RECURSIVE replace(_)
replace(t) ==
    IF t = <<>> THEN <<>>
    ELSE (CASE t[1] = "'" -> <<"f", "t">>
            [] t[1] = "," -> <<".">>
            [] OTHER -> <<t[1]>>) \o replace(Tail(t))

(***************************************************************************)
(* input_to_inches                                                         *)
(***************************************************************************)
\* re.match of ((\d+\s)?\d+/\d+|\d+(\.\d+)?|\.\d+)\s*([a-zA-Z]+)? at the
\* start of t: the alternatives are tried in order, every run is greedy.
\* len is the length of group 1, unit is group 4 (<<>> when it is None).
pattern(t) ==
    LET d1 == Run(t, 1, Digits)
        \* (\d+\s)\d+/\d+
        m2 == Run(t, d1 + 2, Digits)
        m3 == Run(t, d1 + m2 + 3, Digits)
        mixed == /\ d1 >= 1 /\ CharAt(t, d1 + 1) \in Whitespace
                 /\ m2 >= 1 /\ CharAt(t, d1 + m2 + 2) = "/" /\ m3 >= 1
        \* \d+/\d+
        f3 == Run(t, d1 + 2, Digits)
        simple == d1 >= 1 /\ CharAt(t, d1 + 1) = "/" /\ f3 >= 1
        \* \d+(\.\d+)?
        p2 == Run(t, d1 + 2, Digits)
        withpoint == CharAt(t, d1 + 1) = "." /\ p2 >= 1
        \* \.\d+
        q2 == Run(t, 2, Digits)
        leadpoint == CharAt(t, 1) = "." /\ q2 >= 1
        kind == IF mixed THEN "mixed"
                ELSE IF simple THEN "fraction"
                ELSE IF d1 >= 1 \/ leadpoint THEN "decimal"
                ELSE "none"
        len == IF mixed THEN d1 + m2 + m3 + 2
               ELSE IF simple THEN d1 + f3 + 1
               ELSE IF d1 >= 1 THEN (IF withpoint THEN d1 + p2 + 1 ELSE d1)
               ELSE IF leadpoint THEN q2 + 1
               ELSE 0
        ws == Run(t, len + 1, Whitespace)
        ul == Run(t, len + ws + 1, Letters)
    IN  [kind |-> kind, len |-> len,
         unit |-> SubSeq(t, len + ws + 1, len + ws + ul)]

unit_map ==
    { <<<<"i", "n">>, "inches">>,
      <<<<"i", "n", "c", "h">>, "inches">>,
      <<<<"i", "n", "c", "h", "e", "s">>, "inches">>,
      <<<<"m", "m">>, "millimeters">>,
      <<<<"m", "i", "l", "l", "i", "m", "e", "t", "e", "r">>, "millimeters">>,
      <<<<"m", "i", "l", "l", "i", "m", "e", "t", "e", "r", "s">>, "millimeters">>,
      <<<<"c", "m">>, "centimeters">>,
      <<<<"c", "e", "n", "t", "i", "m", "e", "t", "e", "r">>, "centimeters">>,
      <<<<"c", "e", "n", "t", "i", "m", "e", "t", "e", "r", "s">>, "centimeters">>,
      <<<<"m">>, "meters">>,
      <<<<"m", "e", "t", "e", "r">>, "meters">>,
      <<<<"m", "e", "t", "e", "r", "s">>, "meters">>,
      <<<<"f", "t">>, "feet">>,
      <<<<"f", "o", "o", "t">>, "feet">>,
      <<<<"f", "e", "e", "t">>, "feet">>,
      <<<<"y", "d">>, "yards">>,
      <<<<"y", "a", "r", "d">>, "yards">>,
      <<<<"y", "a", "r", "d", "s">>, "yards">>,
      <<<<"k", "m">>, "kilometers">>,
      <<<<"k", "i", "l", "o", "m", "e", "t", "e", "r", "s">>, "kilometers">>,
      <<<<"m", "i", "c", "r", "o", "n">>, "microns">>,
      <<<<"m", "i", "c", "r", "o", "m", "e", "t", "e", "r", "s">>, "microns">>,
      <<<<"m", "i", "c", "r", "o", "n", "s">>, "microns">>,
      <<<<"u", "m">>, "microns">>,
      <<<<"m", "i">>, "miles">>,
      <<<<"m", "i", "l", "e">>, "miles">>,
      <<<<"m", "i", "l", "e", "s">>, "miles">> }

\* unit_map.get(unit, 'inches')
unit_name(unit) ==
    IF \E p \in unit_map : p[1] = unit
    THEN (CHOOSE p \in unit_map : p[1] = unit)[2]
    ELSE "inches"

\* the factor table of lines 173-183 and 234-244
conversions(unit) ==
    CASE unit = "inches" -> Rat(1, 1)
      [] unit = "millimeters" -> Rat(254, 10)
      [] unit = "centimeters" -> Rat(254, 100)
      [] unit = "meters" -> Rat(254, 10000)
      [] unit = "feet" -> Rat(1, 12)
      [] unit = "yards" -> Rat(1, 36)
      [] unit = "kilometers" -> Rat(254, 10000000)
      [] unit = "microns" -> Rat(25400, 1)
      [] unit = "miles" -> Rat(1, 63360)

\* float("12.5"), float(".5"), float("12")
DecimalValue(t) ==
    LET d1 == Run(t, 1, Digits)
        fr == SubSeq(t, d1 + 2, Len(t))
    IN  IF d1 = Len(t) THEN RatInt(DigitsValue(t))
        ELSE RatAdd(RatInt(DigitsValue(SubSeq(t, 1, d1))),
                    Rat(DigitsValue(fr), 10 ^ Len(fr)))

\* the value of group 1, or the exception its conversion raises
numeric_value(value_str, kind) ==
    LET d1 == Run(value_str, 1, Digits)
    IN  CASE kind = "mixed" ->
               LET frac == SubSeq(value_str, d1 + 2, Len(value_str))
                   n1 == Run(frac, 1, Digits)
                   whole_num == DigitsValue(SubSeq(value_str, 1, d1))
                   numerator == DigitsValue(SubSeq(frac, 1, n1))
                   denominator == DigitsValue(SubSeq(frac, n1 + 2, Len(frac)))
               IN  IF denominator = 0 THEN [status |-> "ZeroDivisionError"]
                   ELSE [status |-> "ok",
                         value |-> RatAdd(RatInt(whole_num), Rat(numerator, denominator))]
          [] kind = "fraction" ->
               LET numerator == DigitsValue(SubSeq(value_str, 1, d1))
                   denominator == DigitsValue(SubSeq(value_str, d1 + 2, Len(value_str)))
               IN  IF denominator = 0 THEN [status |-> "ZeroDivisionError"]
                   ELSE [status |-> "ok", value |-> Rat(numerator, denominator)]
          [] OTHER -> [status |-> "ok", value |-> DecimalValue(value_str)]

\* Without a match neither value nor unit_map is bound, and line 170 raises.
input_to_inches(input_value) ==
    LET text == replace(input_value)
        match == pattern(text)
    IN  IF match.kind = "none" THEN [status |-> "UnboundLocalError"]
        ELSE LET v == numeric_value(SubSeq(text, 1, match.len), match.kind)
                 unit == unit_name(match.unit)
             IN  IF v.status # "ok" THEN v
                 ELSE [status |-> "ok",
                       value |-> RatDiv(v.value, conversions(unit)),
                       unit |-> unit]

(***************************************************************************)
(* convert                                                                 *)
(***************************************************************************)
\* the loop of Fraction.limit_denominator (line 215); n/d is the remainder
\* of the continued fraction, p0/q0 and p1/q1 the last two convergents
RECURSIVE limit_loop(_, _, _, _, _, _, _, _)
limit_loop(p0, q0, p1, q1, n, d, max_denominator, self_d) ==
    LET a == n \div d
        q2 == q0 + a * q1
    IN  IF q2 > max_denominator
        THEN LET k == (max_denominator - q0) \div q1
             IN  IF 2 * d * (q0 + k * q1) <= self_d
                 THEN Rat(p1, q1)
                 ELSE Rat(p0 + k * p1, q0 + k * q1)
        ELSE limit_loop(p1, q1, p0 + a * p1, q2, d, n - a * d,
                        max_denominator, self_d)

\* Fraction(x).limit_denominator(max_denominator) for x >= 0
limit_denominator(x, max_denominator) ==
    IF x.d <= max_denominator THEN x
    ELSE limit_loop(0, 1, 1, 0, x.n, x.d, max_denominator, x.d)

\* k written with exactly width digits
RECURSIVE PadText(_, _)
PadText(k, width) ==
    IF width = 0 THEN <<>>
    ELSE PadText(k \div 10, width - 1) \o <<DigitChar(k % 10)>>

\* f"{x:.<places>f}" for x >= 0
FixedText(x, places) ==
    LET y == RatMul(x, RatInt(10 ^ places))
        scaled == RoundHalfEven(y.n, y.d)
    IN  IntText(scaled \div (10 ^ places)) \o <<".">>
           \o PadText(scaled % (10 ^ places), places)

\* str(Fraction) for a fraction >= 0
FractionText(f) ==
    IF f.d = 1 THEN IntText(f.n)
    ELSE IntText(f.n) \o <<"/">> \o IntText(f.d)

\* lines 220-231: the text of the ruler fraction
mixed_number(decimal_inch, rounded_fraction) ==
    IF rounded_fraction.n = RatTrunc(rounded_fraction)
    THEN IntText(RatTrunc(decimal_inch))
    ELSE IF \/ rounded_fraction.n >= rounded_fraction.d * 2
            \/ RatLe(RatInt(1), decimal_inch)
         THEN IntText(RatTrunc(decimal_inch)) \o <<" ">>
                 \o FractionText(RatMod1(rounded_fraction))
         ELSE FractionText(rounded_fraction)

\* The 'decimal' and 'fraction' entries of the report.  The other eight
\* entries are the same decimal_inch times a factor of the table, formatted
\* with a fixed number of places; their last digit depends on the binary
\* rounding of the product and no property below reads them.
convert(input_value) ==
    LET r == input_to_inches(input_value)
    IN  IF r.status # "ok" THEN [status |-> r.status]
        ELSE LET decimal_inch == r.value
                 fractional_inch == limit_denominator(decimal_inch, 64)
                 rounded_fraction == round_to_denominator(fractional_inch, 64).value
             IN  [status |-> "ok",
                  decimal |-> FixedText(decimal_inch, 3) \o <<" ", "i", "n">>,
                  fraction |-> mixed_number(decimal_inch, rounded_fraction)
                                  \o <<" ", "i", "n">>]

(***************************************************************************)
(* Decimal arithmetic under a context of precision p.  A value is          *)
(* [c, e] = c * 10^e without trailing zeros, so that equal values are      *)
(* equal records; an operation yields [v, x]: the value rounded half-even  *)
(* to p significant digits and whether the rounding lost digits (the       *)
(* Inexact signal).                                                        *)
(***************************************************************************)
RECURSIVE Dec(_, _)
Dec(c, e) == IF c = 0 THEN [c |-> 0, e |-> 0]
             ELSE IF c % 10 = 0 THEN Dec(c \div 10, e + 1)
             ELSE [c |-> c, e |-> e]

RECURSIVE NumDigits(_)
NumDigits(k) == IF k < 10 THEN 1 ELSE 1 + NumDigits(k \div 10)

DecRound(p, c, e) ==
    LET a == Abs(c)
        d == NumDigits(a)
    IN  IF d <= p THEN [v |-> Dec(c, e), x |-> FALSE]
        ELSE LET q == 10 ^ (d - p)
             IN  [v |-> Dec(Sign(c) * RoundHalfEven(a, q), e + d - p),
                  x |-> a % q # 0]

DecAdd(p, a, b) ==
    LET m == Min(a.e, b.e)
    IN  DecRound(p, a.c * (10 ^ (a.e - m)) + b.c * (10 ^ (b.e - m)), m)

DecSub(p, a, b) == DecAdd(p, a, [c |-> -b.c, e |-> b.e])

\* the least shift s with |c| * 10^s \div n of at least p digits
RECURSIVE DivShift(_, _, _, _)
DivShift(p, a, n, s) ==
    IF (a * (10 ^ s)) \div n >= 10 ^ (p - 1) THEN s ELSE DivShift(p, a, n, s + 1)

\* a / Decimal(n) for an integer n > 0
DecDivInt(p, a, n) ==
    IF a.c = 0 THEN [v |-> Dec(0, 0), x |-> FALSE]
    ELSE LET s == DivShift(p, Abs(a.c), n, 0)
             m == Abs(a.c) * (10 ^ s)
         IN  [v |-> Dec(Sign(a.c) * RoundHalfEven(m, n), a.e - s),
              x |-> m % n # 0]

(***************************************************************************)
(* calculate_spacing                                                       *)
(***************************************************************************)
\* sum(gauges): 0 + gauges[1] + ... + gauges[i], added from the left
RECURSIVE sum(_, _, _)
sum(p, gauges, i) ==
    IF i = 0 THEN [v |-> Dec(0, 0), x |-> FALSE]
    ELSE LET before == sum(p, gauges, i - 1)
             s == DecAdd(p, before.v, gauges[i])
         IN  [v |-> s.v, x |-> before.x \/ s.x]

\* the slice string_gauges[1:] in place of string_gauges[1:-1]
interior_diameters_with_last(p, string_gauges) ==
    LET interior == SubSeq(string_gauges, 2, Len(string_gauges))
    IN  sum(p, interior, Len(interior))

\* line 321: Decimal(sum(string_gauges[1:-1]))
interior_diameters(p, string_gauges) ==
    LET interior == SubSeq(string_gauges, 2, Len(string_gauges) - 1)
    IN  sum(p, interior, Len(interior))

\* line 331: (position + position + Decimal(gauge)) / Decimal('2')
middle_point(p, position, gauge) ==
    LET twice == DecAdd(p, position, position)
        span == DecAdd(p, twice.v, gauge)
        half == DecDivInt(p, span.v, 2)
    IN  [v |-> half.v, x |-> twice.x \/ span.x \/ half.x]

\* position += inter_string_distance, the gauge forgotten
advance_without_gauge(p, position, inter_string_distance, gauge) ==
    LET next == DecAdd(p, position, inter_string_distance)
    IN  [v |-> next.v, x |-> next.x]

\* line 332: position += inter_string_distance + Decimal(gauge)
advance(p, position, inter_string_distance, gauge) ==
    LET step == DecAdd(p, inter_string_distance, gauge)
        next == DecAdd(p, position, step.v)
    IN  [v |-> next.v, x |-> step.x \/ next.x]

\* the loop of lines 329-332 from string i on; position is the leading edge
RECURSIVE walk(_, _, _, _, _)
walk(p, string_gauges, i, position, inter_string_distance) ==
    IF i > Len(string_gauges) THEN [positions |-> <<>>, x |-> FALSE]
    ELSE LET gauge == string_gauges[i]
             middle == middle_point(p, position, gauge)
             next == advance(p, position, inter_string_distance, gauge)
             rest == walk(p, string_gauges, i + 1, next.v, inter_string_distance)
         IN  [positions |-> <<middle.v>> \o rest.positions,
              x |-> middle.x \/ next.x \/ rest.x]

\* lines 305-334 under precision p
calculate_spacing(p, nut_width, string_gauges, edge_distance, edge_checkbox) ==
    IF Len(string_gauges) = 0 THEN [status |-> "IndexError"]
    ELSE
    LET first == string_gauges[1]
        last == string_gauges[Len(string_gauges)]
        half_first == DecDivInt(p, first, 2)
        half_last == DecDivInt(p, last, 2)
        margin == DecSub(p, nut_width, edge_distance)
        low_adj == DecSub(p, edge_distance, half_first.v)
        high_adj == DecAdd(p, margin.v, half_last.v)
        low_e_edge == IF edge_checkbox THEN edge_distance ELSE low_adj.v
        high_e_edge == IF edge_checkbox THEN margin.v ELSE high_adj.v
        edges_x == IF edge_checkbox THEN margin.x
                   ELSE half_first.x \/ half_last.x \/ margin.x \/ low_adj.x \/ high_adj.x
        low_e_inside == DecAdd(p, low_e_edge, first)
        high_e_inside == DecSub(p, high_e_edge, last)
        total_inside_distance == DecSub(p, high_e_inside.v, low_e_inside.v)
        interior == interior_diameters(p, string_gauges)
        inside_distance == DecSub(p, total_inside_distance.v, interior.v)
    IN  IF Len(string_gauges) = 1
        THEN [status |-> IF inside_distance.v.c = 0 THEN "InvalidOperation"
                         ELSE "DivisionByZero"]
        ELSE LET inter_string_distance ==
                     DecDivInt(p, inside_distance.v, Len(string_gauges) - 1)
                 w == walk(p, string_gauges, 1, low_e_edge, inter_string_distance.v)
             IN  [status |-> "ok",
                  inter_string_distance |-> inter_string_distance.v,
                  positions |-> w.positions,
                  inexact |-> \/ edges_x \/ low_e_inside.x \/ high_e_inside.x
                              \/ total_inside_distance.x \/ interior.x
                              \/ inside_distance.x \/ inter_string_distance.x \/ w.x]

(***************************************************************************)
(* fret_placement and calculate_fretboard                                  *)
(***************************************************************************)
\* 1000 * 2^(k/12) for k = 0..11, to the nearest integer
semitone == <<1000, 1059, 1122, 1189, 1260, 1335, 1414, 1498, 1587, 1682, 1782, 1888>>

\* 2 ** (fret_number / 12), with the three decimals of the table above
pow2_12(fret_number) ==
    LET k == Abs(fret_number)
        up == Rat(semitone[(k % 12) + 1] * (2 ^ (k \div 12)), 1000)
    IN  IF fret_number >= 0 THEN up ELSE Rat(up.d, up.n)

\* the quotient added instead of subtracted
fret_placement_added(scale_length, fret_number) ==
    RatAdd(scale_length, RatDiv(scale_length, pow2_12(fret_number)))

fret_placement(scale_length, fret_number) ==
    RatSub(scale_length, RatDiv(scale_length, pow2_12(fret_number)))

\* start_radius + (position / fretboard_length) * (end_radius - start_radius)
radius_at(position, fretboard_length, start_radius, end_radius) ==
    RatAdd(start_radius,
           RatMul(RatDiv(position, fretboard_length), RatSub(end_radius, start_radius)))

\* nothing checks the arguments: the only failure is the division by a
\* fretboard_length of zero on line 383
calculate_fretboard(start_radius, end_radius, scale_length, num_frets) ==
    LET fretboard_length == fret_placement(scale_length, num_frets + 1)
        final_fret_pos == fret_placement(scale_length, num_frets)
    IN  IF fretboard_length.n = 0 THEN [status |-> "ZeroDivisionError"]
        ELSE LET final_radius == radius_at(final_fret_pos, fretboard_length,
                                           start_radius, end_radius)
                 saddle_radius == radius_at(scale_length, fretboard_length,
                                            start_radius, end_radius)
                 positions == [fret \in 1..num_frets |->
                                  fret_placement(scale_length, fret)]
                 table == [i \in 1..(Len(positions) - 1) |->
                              <<positions[i],
                                radius_at(positions[i], fretboard_length,
                                          start_radius, end_radius)>>]
             IN  [status |-> "ok",
                  fretboard_length |-> fretboard_length,
                  saddle_radius |-> saddle_radius,
                  result |-> table \o <<<<final_fret_pos, final_radius>>>>]

(***************************************************************************)
(* The client                                                              *)
(***************************************************************************)
DefaultPrec == 28

SpacingPrec == 6

NoCall == [op |-> "none"]

NoResult == [status |-> "none"]

Denominators == {64, 16, 10}

Init ==
    /\ pc = "idle"
    /\ call = NoCall
    /\ result = NoResult
    /\ prec = DefaultPrec

CallRoundToDenominator ==
    /\ pc = "idle"
    /\ \E k \in -MaxRoundMilli..MaxRoundMilli, den \in Denominators :
          /\ call' = [op |-> "round_to_denominator", value |-> Rat(k, 1000),
                      denominator |-> den]
          /\ result' = [status |-> "ok"] @@ round_to_denominator(Rat(k, 1000), den)
    /\ pc' = "done"
    /\ UNCHANGED prec

\* the client takes the returned value (or the exception) and goes on
Return ==
    /\ pc = "done"
    /\ pc' = "idle"
    /\ call' = NoCall
    /\ result' = NoResult
    /\ UNCHANGED prec

Alphabet == {"0", "1", " ", "/", ".", ",", "'", "m"}

Texts == UNION { [1..n -> Alphabet] : n \in 0..MaxLen }

CallInputToInches ==
    /\ pc = "idle"
    /\ \E text \in Texts :
          /\ call' = [op |-> "input_to_inches", input_value |-> text]
          /\ result' = input_to_inches(text)
    /\ pc' = "done"
    /\ UNCHANGED prec

\* "0.750", "25.500": k thousandths written as a decimal number
DecimalText(k) == IntText(k \div 1000) \o <<".">> \o PadText(k % 1000, 3)

ExtraMilli == {25500}

ConvertSuffixes == {<<>>, <<" ", "i", "n">>, <<"m", "m">>, <<"'">>}

ExtraTexts == {<<>>, <<"m", "m">>, <<"1", " ", "1", "/", "2">>, <<"3", "/", "4">>,
               <<"1", "/", "0">>, <<"6", "3", "/", "6", "4", "i", "n">>}

ConvertTexts ==
    { DecimalText(k) \o u : k \in (0..MaxMilli) \cup ExtraMilli, u \in ConvertSuffixes }
       \cup ExtraTexts

CallConvert ==
    /\ pc = "idle"
    /\ \E text \in ConvertTexts :
          /\ call' = [op |-> "convert", input_value |-> text]
          /\ result' = convert(text)
    /\ pc' = "done"
    /\ UNCHANGED prec

\* Decimal('0.046') is Milli(46)
Milli(k) == Dec(k, -3)

NutWidths == {Milli(1625), Milli(1750), Milli(342), Milli(250)}

EdgeDistances == {Milli(125), Milli(100)}

Gauges == {Milli(10), Milli(17), Milli(46)}

\* the example of the docstring, lines 297-299
ExampleGauges == <<Milli(46), Milli(36), Milli(26), Milli(17), Milli(13), Milli(10)>>

GaugeSequences ==
    UNION { [1..n -> Gauges] : n \in 0..MaxStrings } \cup {ExampleGauges}

\* line 303 sets the precision of the ambient context and nothing restores it
CallCalculateSpacing ==
    /\ pc = "idle"
    /\ prec' = SpacingPrec
    /\ \E nut_width \in NutWidths, string_gauges \in GaugeSequences,
          edge_distance \in EdgeDistances, edge_checkbox \in BOOLEAN :
          /\ call' = [op |-> "calculate_spacing", nut_width |-> nut_width,
                      string_gauges |-> string_gauges,
                      edge_distance |-> edge_distance,
                      edge_checkbox |-> edge_checkbox]
          /\ result' = calculate_spacing(prec', nut_width, string_gauges,
                                         edge_distance, edge_checkbox)
    /\ pc' = "done"

Radii == {Rat(29, 4), RatInt(10), RatInt(12), RatInt(16)}

ScaleLengths == {Rat(51, 2), Rat(99, 4), RatInt(0), Rat(-51, 2)}

FretCounts == (-2)..MaxFrets

CallFretPlacement ==
    /\ pc = "idle"
    /\ \E scale_length \in ScaleLengths, fret_number \in 0..(MaxFrets + 1) :
          /\ call' = [op |-> "fret_placement", scale_length |-> scale_length,
                      fret_number |-> fret_number]
          /\ result' = [status |-> "ok",
                        value |-> fret_placement(scale_length, fret_number)]
    /\ pc' = "done"
    /\ UNCHANGED prec

CallCalculateFretboard ==
    /\ pc = "idle"
    /\ \E start_radius \in Radii, end_radius \in Radii,
          scale_length \in ScaleLengths, num_frets \in FretCounts :
          /\ call' = [op |-> "calculate_fretboard", start_radius |-> start_radius,
                      end_radius |-> end_radius, scale_length |-> scale_length,
                      num_frets |-> num_frets]
          /\ result' = calculate_fretboard(start_radius, end_radius,
                                           scale_length, num_frets)
    /\ pc' = "done"
    /\ UNCHANGED prec

Next ==
    \/ CallRoundToDenominator
    \/ CallInputToInches
    \/ CallConvert
    \/ CallCalculateSpacing
    \/ CallFretPlacement
    \/ CallCalculateFretboard
    \/ Return

Spec == Init /\ [][Next]_vars

(***************************************************************************)
(* Properties                                                              *)
(***************************************************************************)
Returned(op) == pc = "done" /\ call.op = op

\* the preprocessed text starts with a digit, or with a point and a digit
LeadsWithNumber(text) ==
    LET t == replace(text)
    IN  \/ CharAt(t, 1) \in Digits
        \/ CharAt(t, 1) = "." /\ CharAt(t, 2) \in Digits

\* C1: parsing a text without a leading numeric token fails with ParseError
\* and produces no magnitude or unit.
C1_NoNumberIsParseError ==
    (Returned("input_to_inches") /\ ~LeadsWithNumber(call.input_value))
        => result = [status |-> "ParseError"]

\* C2: calculate_fretboard fails with ConfigurationError, returning no table,
\* whenever num_frets < 1 or scale_length <= 0.
C2_BadFretboardIsConfigurationError ==
    (/\ Returned("calculate_fretboard")
     /\ (call.num_frets < 1 \/ call.scale_length.n <= 0))
        => result = [status |-> "ConfigurationError"]

\* C3: with the default denominator 64, a value whose own lowest-terms
\* denominator is outside {2, 4, 8, 16, 32, 64} is returned unrounded
\* (0.45 = 9/20 comes back as 9/20, not as a 64th).
C3_OffRulerValueComesBackUnrounded ==
    (/\ Returned("round_to_denominator")
     /\ call.denominator = 64
     /\ call.value.d \notin standard_denominators(64))
        => (result.value = call.value /\ ~result.rounded)

\* the ruler fraction convert renders for a parsed value
RulerFraction(decimal_inch) ==
    round_to_denominator(limit_denominator(decimal_inch, 64), 64).value

IsWhole(f) == f.d = 1

InText == <<" ", "i", "n">>

\* "<whole> <num>/<den>" of a fraction that is not whole
MixedText(f) == IntText(RatTrunc(f)) \o <<" ">> \o FractionText(RatMod1(f))

\* C4: when the ruler fraction is not whole, the 'fraction' entry is
\* "<whole> <num>/<den>" if the fractional part is at least one half or the
\* decimal value is at least 1, and the bare "<num>/<den>" otherwise.
C4_MixedWhenHalfOrMore ==
    (Returned("convert") /\ result.status = "ok") =>
        LET decimal_inch == input_to_inches(call.input_value).value
            f == RulerFraction(decimal_inch)
            part == RatMod1(f)
        IN  ~IsWhole(f) =>
               result.fraction =
                  (IF 2 * part.n >= part.d \/ RatLe(RatInt(1), decimal_inch)
                   THEN MixedText(f) ELSE FractionText(f)) \o InText

\* C10: a whole ruler fraction is rendered as that whole number, so the
\* number the 'fraction' entry denotes is always the ruler fraction itself.
C10_FractionEntryDenotesRulerFraction ==
    (Returned("convert") /\ result.status = "ok") =>
        LET decimal_inch == input_to_inches(call.input_value).value
            f == RulerFraction(decimal_inch)
        IN  /\ IsWhole(f) => result.fraction = IntText(f.n) \o InText
            /\ input_to_inches(result.fraction).value = f

\* C9: with the default denominator 64 the input is never handed back: the
\* result is always the signed fraction round(|v| * 64) / 64.
C9_AlwaysA64th ==
    (Returned("round_to_denominator") /\ call.denominator = 64) =>
        LET v == call.value
            absval == RatAbs(v)
        IN  /\ result.rounded
            /\ result.value = Rat(Sign(v.n) * RoundHalfEven(absval.n * 64, absval.d), 64)

\* C7: no call changes the precision of the caller's decimal context.
C7_PrecisionIsLeftAlone == [][prec' = prec]_vars

\* a Decimal of the spacing calculator in units of 10^-8, exactly
Units(a) == a.c * (10 ^ (a.e + 8))

SpacingDone == Returned("calculate_spacing") /\ result.status = "ok"

\* C5 as stated: inter_string_distance is the distance between the centres
\* of every two adjacent strings.
C5_CentreToCentre ==
    SpacingDone =>
        \A i \in 1..(Len(result.positions) - 1) :
            Units(result.positions[i + 1]) - Units(result.positions[i])
                = Units(result.inter_string_distance)

\* C5 as amended: inter_string_distance is the gap between the facing edges
\* of every two adjacent strings (when no operation of the call was inexact),
\* so that the centres are inter_string_distance plus the two half gauges
\* apart.
C5_EdgeToEdge ==
    (SpacingDone /\ ~result.inexact) =>
        \A i \in 1..(Len(result.positions) - 1) :
            2 * (Units(result.positions[i + 1]) - Units(result.positions[i]))
               - Units(call.string_gauges[i + 1]) - Units(call.string_gauges[i])
                = 2 * Units(result.inter_string_distance)

C5_Witness ==
    /\ SpacingDone
    /\ ~result.inexact
    /\ call.string_gauges = ExampleGauges
    /\ call.nut_width = Milli(1625)
    /\ ~call.edge_checkbox
    /\ result.inter_string_distance = Milli(251)

\* C8: when no operation of the call was inexact, the walk ends on the high
\* edge: with edge_checkbox the outer edges of the first and the last string
\* are at edge_distance and nut_width - edge_distance, without it their
\* centres are; and the positions ascend whenever inter_string_distance > 0.
C8_WalkEndsOnHighEdge ==
    SpacingDone =>
        LET n == Len(result.positions)
            low == 2 * Units(call.edge_distance)
            high == 2 * (Units(call.nut_width) - Units(call.edge_distance))
            first == 2 * Units(result.positions[1])
            last == 2 * Units(result.positions[n])
        IN  /\ n = Len(call.string_gauges)
            /\ (~result.inexact /\ call.edge_checkbox) =>
                  /\ first - Units(call.string_gauges[1]) = low
                  /\ last + Units(call.string_gauges[n]) = high
            /\ (~result.inexact /\ ~call.edge_checkbox) =>
                  /\ first = low
                  /\ last = high
            /\ result.inter_string_distance.c > 0 =>
                  \A i \in 1..(n - 1) :
                      Units(result.positions[i]) < Units(result.positions[i + 1])

C8_Witness ==
    /\ SpacingDone
    /\ ~result.inexact
    /\ call.edge_checkbox
    /\ Len(call.string_gauges) = 4
    /\ \E i \in 1..3 : call.string_gauges[i] # call.string_gauges[i + 1]
    /\ result.inter_string_distance.c > 0

FretboardDone ==
    /\ Returned("calculate_fretboard")
    /\ result.status = "ok"
    /\ call.num_frets >= 1
    /\ call.scale_length.n > 0

\* C6 as stated: saddle_radius lies between start_radius and end_radius.
C6_SaddleBetweenStartAndEnd ==
    FretboardDone =>
        \/ RatLe(call.start_radius, result.saddle_radius)
              /\ RatLe(result.saddle_radius, call.end_radius)
        \/ RatLe(call.end_radius, result.saddle_radius)
              /\ RatLe(result.saddle_radius, call.start_radius)

\* C6 as amended: the saddle is past the end of the fretboard, so the radius
\* is extrapolated: end_radius lies between start_radius and saddle_radius.
C6_SaddleBeyondEnd ==
    FretboardDone =>
        \/ RatLe(call.start_radius, call.end_radius)
              /\ RatLe(call.end_radius, result.saddle_radius)
        \/ RatLe(result.saddle_radius, call.end_radius)
              /\ RatLe(call.end_radius, call.start_radius)

C6_Witness ==
    /\ FretboardDone
    /\ call.start_radius = RatInt(10)
    /\ call.end_radius = RatInt(16)
    /\ call.scale_length = Rat(51, 2)
    /\ call.num_frets = 22
    /\ RatLt(RatInt(18), result.saddle_radius)

=============================================================================
